---- MODULE Spec2Model ----
(***************************************************************************)
(* Model of the chat-completion proxy: the authenticated router with       *)
(* synthesized streaming (src/src/index.ts), the pass-through router with  *)
(* createChatCompletion and the stream re-framer                           *)
(* transformStreamToDeepSeekFormat (src/src/deepseek-api.ts).              *)
(*                                                                         *)
(* Texts are TLA+ strings; every string operation the code performs        *)
(* (trim, startsWith, substring, includes, JSON.parse, JSON.stringify, the *)
(* regular expressions) is computed character by character.                *)
(* Numbers in JSON texts are integers, string escapes are \" \\ \/ \n \t   *)
(* \r: the texts the model feeds to the program stay inside that subset.   *)
(***************************************************************************)
EXTENDS Integers, Sequences, FiniteSets, TLC

VARIABLES
    now,        \* the wall clock in milliseconds (Date.now())
    via,        \* which entry point served the last request
    req,        \* the last request
    resp,       \* the response returned for it
    aiCalls,    \* the env.AI.run invocations made for it, in order
    stream,     \* the re-framing stream of createChatCompletion
    synth       \* the synthesized stream of index.ts

vars == <<now, via, req, resp, aiCalls, stream, synth>>

(***************************************************************************)
(* Strings                                                                 *)
(***************************************************************************)
\* the characters a..b of s, clipped to s
Sub(s, a, b) ==
    LET lo == IF a < 1 THEN 1 ELSE a
        hi == IF b > Len(s) THEN Len(s) ELSE b
    IN  IF lo > hi THEN "" ELSE SubSeq(s, lo, hi)

Ch(s, i) == Sub(s, i, i)

IsWs(c) == c \in {" ", "\n", "\t", "\r"}

RECURSIVE TrimStart(_)
TrimStart(s) ==
    IF Len(s) > 0 /\ IsWs(Ch(s, 1)) THEN TrimStart(Sub(s, 2, Len(s))) ELSE s

RECURSIVE TrimEnd(_)
TrimEnd(s) ==
    IF Len(s) > 0 /\ IsWs(Ch(s, Len(s))) THEN TrimEnd(Sub(s, 1, Len(s) - 1)) ELSE s

\* String.prototype.trim
Trim(s) == TrimEnd(TrimStart(s))

\* String.prototype.startsWith
StartsWith(s, p) == Len(s) >= Len(p) /\ Sub(s, 1, Len(p)) = p

\* String.prototype.endsWith
EndsWith(s, p) == Len(s) >= Len(p) /\ Sub(s, Len(s) - Len(p) + 1, Len(s)) = p

\* String.prototype.substring(n)
Substring(s, n) == Sub(s, n + 1, Len(s))

\* String.prototype.slice(a, b) for 0 <= a <= b
Slice(s, a, b) == Sub(s, a + 1, b)

\* String.prototype.includes
Includes(s, p) ==
    \E i \in 1..(Len(s) - Len(p) + 1) : Sub(s, i, i + Len(p) - 1) = p

\* The least position at which p occurs in s, 0 when it does not occur
RECURSIVE IndexFrom(_, _, _)
IndexFrom(s, p, i) ==
    IF i + Len(p) - 1 > Len(s) THEN 0
    ELSE IF Sub(s, i, i + Len(p) - 1) = p THEN i
    ELSE IndexFrom(s, p, i + 1)

(***************************************************************************)
(* JSON values                                                             *)
(***************************************************************************)
JUndefined == [t |-> "undefined"]
JNull == [t |-> "null"]
JBool(b) == [t |-> "bool", b |-> b]
JNum(n) == [t |-> "num", n |-> n]
JStr(s) == [t |-> "str", s |-> s]
JArr(el) == [t |-> "arr", el |-> el]
JObj(kv) == [t |-> "obj", kv |-> kv]
Prop(k, v) == [k |-> k, v |-> v]

\* obj[key] = v on a plain object: an existing key keeps its place
RECURSIVE PutProp(_, _, _)
PutProp(kv, k, v) ==
    IF kv = <<>> THEN <<Prop(k, v)>>
    ELSE IF Head(kv).k = k THEN <<Prop(k, v)>> \o Tail(kv)
    ELSE <<Head(kv)>> \o PutProp(Tail(kv), k, v)

RECURSIVE GetProp(_, _)
GetProp(kv, k) ==
    IF kv = <<>> THEN JUndefined
    ELSE IF Head(kv).k = k THEN Head(kv).v
    ELSE GetProp(Tail(kv), k)

\* The property read v.key: undefined on a primitive, an array or a missing
\* key. Reading a property of null or undefined throws: callers test Throws.
Field(v, k) == IF v.t = "obj" THEN GetProp(v.kv, k) ELSE JUndefined
FieldThrows(v) == v.t \in {"null", "undefined"}

\* 'key' in v, for an object v
HasKey(v, k) == v.t = "obj" /\ \E i \in 1..Len(v.kv) : v.kv[i].k = k

\* JavaScript truthiness
Truthy(v) ==
    CASE v.t = "undefined" -> FALSE
      [] v.t = "null" -> FALSE
      [] v.t = "bool" -> v.b
      [] v.t = "num" -> v.n # 0
      [] v.t = "str" -> v.s # ""
      [] OTHER -> TRUE

\* a || b
OrElse(a, b) == IF Truthy(a) THEN a ELSE b

(***************************************************************************)
(* JSON.parse                                                              *)
(***************************************************************************)
Fail == [ok |-> FALSE, v |-> JUndefined, p |-> 0]
Ok(v, p) == [ok |-> TRUE, v |-> v, p |-> p]

Digits == <<"0", "1", "2", "3", "4", "5", "6", "7", "8", "9">>
IsDigit(c) == \E d \in 1..10 : Digits[d] = c
DigitVal(c) == (CHOOSE d \in 1..10 : Digits[d] = c) - 1

RECURSIVE SkipWs(_, _)
SkipWs(s, i) == IF i <= Len(s) /\ IsWs(Ch(s, i)) THEN SkipWs(s, i + 1) ELSE i

\* the least position from i on that holds a quote, a backslash or a control
\* character; Len(s) + 1 when there is none
RECURSIVE ScanChars(_, _)
ScanChars(s, i) ==
    IF i > Len(s) \/ Ch(s, i) \in {"\"", "\\", "\n", "\t", "\r"} THEN i
    ELSE ScanChars(s, i + 1)

\* the characters of a string literal, from position i after the opening
\* quote; acc holds those already read
RECURSIVE ParseChars(_, _, _)
ParseChars(s, i, acc) ==
    LET j == ScanChars(s, i)
        c == Ch(s, j)
        e == Ch(s, j + 1)
        read == acc \o Sub(s, i, j - 1)
    IN  IF j > Len(s) THEN Fail
        ELSE IF c = "\"" THEN Ok(JStr(read), j + 1)
        ELSE IF c # "\\" THEN Fail
        ELSE IF e \in {"\"", "\\", "/"} /\ e # "" THEN ParseChars(s, j + 2, read \o e)
        ELSE IF e = "n" THEN ParseChars(s, j + 2, read \o "\n")
        ELSE IF e = "t" THEN ParseChars(s, j + 2, read \o "\t")
        ELSE IF e = "r" THEN ParseChars(s, j + 2, read \o "\r")
        ELSE Fail

RECURSIVE ParseDigits(_, _, _)
ParseDigits(s, i, acc) ==
    IF i <= Len(s) /\ IsDigit(Ch(s, i))
    THEN ParseDigits(s, i + 1, 10 * acc + DigitVal(Ch(s, i)))
    ELSE Ok(JNum(acc), i)

\* an integer: -? (0 | [1-9][0-9]*)
ParseNumber(s, i) ==
    LET neg == Ch(s, i) = "-"
        j == IF neg THEN i + 1 ELSE i
    IN  IF j > Len(s) \/ ~IsDigit(Ch(s, j)) THEN Fail
        ELSE IF Ch(s, j) = "0" THEN Ok(JNum(0), j + 1)
        ELSE LET r == ParseDigits(s, j, 0) IN
             Ok(JNum(IF neg THEN 0 - r.v.n ELSE r.v.n), r.p)

RECURSIVE ParseValue(_, _)
RECURSIVE ParseMembers(_, _, _)
RECURSIVE ParseElements(_, _, _)

\* the members of an object, from the first key; kv holds those already read
ParseMembers(s, i, kv) ==
    LET a == SkipWs(s, i) IN
    IF Ch(s, a) # "\"" THEN Fail
    ELSE LET key == ParseChars(s, a + 1, "") IN
         IF ~key.ok THEN Fail
         ELSE LET b == SkipWs(s, key.p) IN
              IF Ch(s, b) # ":" THEN Fail
              ELSE LET val == ParseValue(s, b + 1) IN
                   IF ~val.ok THEN Fail
                   ELSE LET c == SkipWs(s, val.p)
                            kv2 == PutProp(kv, key.v.s, val.v)
                        IN  IF Ch(s, c) = "}" THEN Ok(JObj(kv2), c + 1)
                            ELSE IF Ch(s, c) = "," THEN ParseMembers(s, c + 1, kv2)
                            ELSE Fail

\* the elements of an array, from the first one; el holds those already read
ParseElements(s, i, el) ==
    LET val == ParseValue(s, i) IN
    IF ~val.ok THEN Fail
    ELSE LET c == SkipWs(s, val.p)
             el2 == Append(el, val.v)
         IN  IF Ch(s, c) = "]" THEN Ok(JArr(el2), c + 1)
             ELSE IF Ch(s, c) = "," THEN ParseElements(s, c + 1, el2)
             ELSE Fail

ParseValue(s, i) ==
    LET a == SkipWs(s, i)
        c == Ch(s, a)
    IN  IF a > Len(s) THEN Fail
        ELSE IF c = "{" THEN
            LET b == SkipWs(s, a + 1) IN
            IF Ch(s, b) = "}" THEN Ok(JObj(<<>>), b + 1) ELSE ParseMembers(s, b, <<>>)
        ELSE IF c = "[" THEN
            LET b == SkipWs(s, a + 1) IN
            IF Ch(s, b) = "]" THEN Ok(JArr(<<>>), b + 1) ELSE ParseElements(s, b, <<>>)
        ELSE IF c = "\"" THEN ParseChars(s, a + 1, "")
        ELSE IF c = "-" \/ IsDigit(c) THEN ParseNumber(s, a)
        ELSE IF Sub(s, a, a + 3) = "true" THEN Ok(JBool(TRUE), a + 4)
        ELSE IF Sub(s, a, a + 4) = "false" THEN Ok(JBool(FALSE), a + 5)
        ELSE IF Sub(s, a, a + 3) = "null" THEN Ok(JNull, a + 4)
        ELSE Fail

\* JSON.parse(s): ok is FALSE where it throws a SyntaxError
JSONParse(s) ==
    LET r == ParseValue(s, 1) IN
    IF r.ok /\ SkipWs(s, r.p) = Len(s) + 1 THEN r ELSE Fail

(***************************************************************************)
(* JSON.stringify                                                          *)
(***************************************************************************)
NeedsEscape(c) == c \in {"\"", "\\", "\n", "\t", "\r"}

\* the least position from i on that holds a character to escape
RECURSIVE ScanEscape(_, _)
ScanEscape(s, i) ==
    IF i > Len(s) \/ NeedsEscape(Ch(s, i)) THEN i ELSE ScanEscape(s, i + 1)

RECURSIVE EscapeFrom(_, _)
EscapeFrom(s, i) ==
    LET j == ScanEscape(s, i)
        c == Ch(s, j)
        e == CASE c = "\"" -> "\\\""
               [] c = "\\" -> "\\\\"
               [] c = "\n" -> "\\n"
               [] c = "\t" -> "\\t"
               [] c = "\r" -> "\\r"
               [] OTHER -> ""
    IN  IF j > Len(s) THEN Sub(s, i, Len(s))
        ELSE Sub(s, i, j - 1) \o e \o EscapeFrom(s, j + 1)

Escape(s) == EscapeFrom(s, 1)

Quote(s) == "\"" \o Escape(s) \o "\""

RECURSIVE Stringify(_)
RECURSIVE StringifyProps(_, _)
RECURSIVE StringifyElems(_, _)

\* the members of an object; a property whose value is undefined is left out
StringifyProps(kv, first) ==
    IF kv = <<>> THEN ""
    ELSE IF Head(kv).v.t = "undefined" THEN StringifyProps(Tail(kv), first)
    ELSE (IF first THEN "" ELSE ",") \o Quote(Head(kv).k) \o ":"
         \o Stringify(Head(kv).v) \o StringifyProps(Tail(kv), FALSE)

StringifyElems(el, first) ==
    IF el = <<>> THEN ""
    ELSE (IF first THEN "" ELSE ",")
         \o (IF Head(el).t = "undefined" THEN "null" ELSE Stringify(Head(el)))
         \o StringifyElems(Tail(el), FALSE)

Stringify(v) ==
    CASE v.t = "null" -> "null"
      [] v.t = "bool" -> IF v.b THEN "true" ELSE "false"
      [] v.t = "num" -> ToString(v.n)
      [] v.t = "str" -> Quote(v.s)
      [] v.t = "arr" -> "[" \o StringifyElems(v.el, TRUE) \o "]"
      [] v.t = "obj" -> "{" \o StringifyProps(v.kv, TRUE) \o "}"

(***************************************************************************)
(* String conversion of a value inside a template literal: `${v}`          *)
(***************************************************************************)
RECURSIVE ToStr(_)
RECURSIVE JoinStr(_, _)

\* Array.prototype.join on the elements' string conversions
JoinStr(el, sep) ==
    IF el = <<>> THEN ""
    ELSE (IF Head(el).t \in {"null", "undefined"} THEN "" ELSE ToStr(Head(el)))
         \o (IF Len(el) > 1 THEN sep ELSE "") \o JoinStr(Tail(el), sep)

ToStr(v) ==
    CASE v.t = "undefined" -> "undefined"
      [] v.t = "null" -> "null"
      [] v.t = "bool" -> IF v.b THEN "true" ELSE "false"
      [] v.t = "num" -> ToString(v.n)
      [] v.t = "str" -> v.s
      [] v.t = "arr" -> JoinStr(v.el, ",")
      [] v.t = "obj" -> "[object Object]"

(***************************************************************************)
(* Responses                                                               *)
(***************************************************************************)
\* new Response(body, {status, headers}); header names are case-insensitive
\* and kept in lower case
Response(status, headers, kind, body) ==
    [status |-> status, headers |-> headers, kind |-> kind, body |-> body]

NoResponse == Response(0, {}, "none", "")

corsHeaders ==
    { <<"access-control-allow-origin", "*">>,
      <<"access-control-allow-methods", "GET, POST, PUT, DELETE, OPTIONS">>,
      <<"access-control-allow-headers", "Content-Type, Authorization">> }

handleCORS ==
    Response(204, corsHeaders \cup {<<"access-control-max-age", "86400">>}, "none", "")

JsonHeader == {<<"content-type", "application/json">>}

EventStreamHeaders ==
    { <<"content-type", "text/event-stream">>,
      <<"cache-control", "no-cache">>,
      <<"connection", "keep-alive">> }

\* {error: {message, type: 'internal_server_error', param: null, code}}
InternalErrorBody(message) ==
    Stringify(JObj(<<Prop("error", JObj(<<
        Prop("message", JStr(message)),
        Prop("type", JStr("internal_server_error")),
        Prop("param", JNull),
        Prop("code", JStr("internal_server_error"))>>))>>))

ChatPaths == {"/chat/completions", "/v1/chat/completions"}

(***************************************************************************)
(* transformStreamToDeepSeekFormat                                         *)
(***************************************************************************)
DoneEvent == "data: [DONE]\n\n"

\* `data: ${JSON.stringify(chunk)}\n\n` for a ChatCompletionChunk
ChunkEvent(id, created, model, content, finish) ==
    "data: " \o Stringify(JObj(<<
        Prop("id", JStr(id)),
        Prop("object", JStr("chat.completion.chunk")),
        Prop("created", JNum(created)),
        Prop("model", model),
        Prop("choices", JArr(<<JObj(<<
            Prop("index", JNum(0)),
            Prop("delta", JObj(<<Prop("content", content)>>)),
            Prop("finish_reason", finish)>>)>>))>>)) \o "\n\n"

ResponseKey == "\"response\":\""
NoMatch == [matched |-> FALSE, g |-> ""]

\* data.match(/"response":"([^"]*)"/): the leftmost match and its group
RECURSIVE ResponseMatch(_, _)
ResponseMatch(data, from) ==
    LET a == IndexFrom(data, ResponseKey, from) IN
    IF a = 0 THEN NoMatch
    ELSE LET q == IndexFrom(data, "\"", a + Len(ResponseKey)) IN
         IF q = 0 THEN ResponseMatch(data, a + 1)
         ELSE [matched |-> TRUE, g |-> Sub(data, a + Len(ResponseKey), q - 1)]

\* the skip test of the data branch
SkipData(data) ==
    \/ data = ""
    \/ data = "{}"
    \/ (Includes(data, "\"usage\"") /\ ~Includes(data, "\"response\""))

\* ParseFallback forwarding the payload it could not parse as it came
ParseFallbackUnwrapped(data, id, created, model) ==
    IF data # "" /\ data # "{}" THEN <<"data: " \o data \o "\n\n">> ELSE <<>>

\* ParseFallback dropping the payload in which it finds no pattern
ParseFallbackDropping(data, id, created, model) ==
    IF ResponseMatch(data, 1).matched /\ ResponseMatch(data, 1).g # ""
    THEN <<ChunkEvent(id, created, model, JStr(ResponseMatch(data, 1).g), JNull)>>
    ELSE <<>>

\* the catch branch of the data branch: the events it enqueues
ParseFallback(data, id, created, model) ==
    LET m == ResponseMatch(data, 1) IN
    IF m.matched /\ m.g # "" THEN <<ChunkEvent(id, created, model, JStr(m.g), JNull)>>
    ELSE IF data # "" /\ Trim(data) # "" /\ data # "{}"
         THEN <<ChunkEvent(id, created, model, JStr(""), JNull)>>
    ELSE <<>>

\* ParsedEvents testing `if (parsed.response)`: a falsy response is dropped
ParsedEventsTruthyOnly(parsed, data, id, created, model) ==
    IF ~parsed.ok \/ FieldThrows(parsed.v)
    THEN ParseFallback(data, id, created, model)
    ELSE IF Truthy(Field(parsed.v, "response"))
         THEN <<ChunkEvent(id, created, model, Field(parsed.v, "response"),
                           IF Truthy(Field(parsed.v, "done"))
                           THEN JStr("stop") ELSE JNull)>>
         ELSE <<>>

\* the try block of the data branch from JSON.parse on, parsed being what
\* JSON.parse(data) gave: the events it enqueues
ParsedEvents(parsed, data, id, created, model) ==
    IF ~parsed.ok \/ FieldThrows(parsed.v)
    THEN ParseFallback(data, id, created, model)
    ELSE IF Field(parsed.v, "response").t # "undefined"
         THEN <<ChunkEvent(id, created, model,
                           OrElse(Field(parsed.v, "response"), JStr("")),
                           IF Truthy(Field(parsed.v, "done"))
                           THEN JStr("stop") ELSE JNull)>>
         ELSE <<>>

\* the try block of the data branch: the events it enqueues
DataEvents(data, id, created, model) ==
    IF SkipData(data) THEN <<>>
    ELSE ParsedEvents(JSONParse(data), data, id, created, model)

\* the data branch without the [DONE] test: the sentinel is handled as a
\* payload
DataBranchDoneWrapped(data, id, created, model) ==
    DataEvents(data, id, created, model)

\* the data branch of transform, data being text.substring(6).trim()
DataBranch(data, id, created, model) ==
    IF data = "[DONE]" THEN <<DoneEvent>>
    ELSE DataEvents(data, id, created, model)

\* transform framing a chunk that is no data chunk as a CompletionChunk
transformTailFramed(text, id, created, model) ==
    IF Trim(text) = "" THEN <<>>
    ELSE IF StartsWith(text, "data: ")
         THEN DataBranch(Trim(Substring(text, 6)), id, created, model)
    ELSE <<ChunkEvent(id, created, model, JStr(""), JNull)>>

\* transform(chunk, controller): the events enqueued for one delivered chunk
transform(text, id, created, model) ==
    IF Trim(text) = "" THEN <<>>
    ELSE IF StartsWith(text, "data: ")
         THEN DataBranch(Trim(Substring(text, 6)), id, created, model)
    ELSE <<text \o "\n">>

(***************************************************************************)
(* Bounds and inputs                                                       *)
(***************************************************************************)
MaxChunks == 2      \* upstream chunks delivered to one re-framed stream

\* Date.now() when the request arrives: the last millisecond of a second
StartTime == 999

\* the readings of Date.now() during one request: its arrival and the
\* millisecond after
Instants == {StartTime, StartTime + 1}

Methods == {"OPTIONS", "GET", "POST"}
Paths == ChatPaths \cup {"/", "/foo"}

API_TOKEN == "s3cret"

\* request.headers.get('Authorization'): null when the header is absent
NoAuth == [present |-> FALSE, value |-> ""]
Auth(v) == [present |-> TRUE, value |-> v]
AuthHeaders ==
    { NoAuth, Auth(""), Auth("Bearer s3cret"), Auth("Bearer  s3cret"),
      Auth("Bearer wrong"), Auth("Basic s3cret"), Auth("bearer s3cret"),
      Auth("Bearers3cret") }

Msgs == "\"messages\":[{\"role\":\"user\",\"content\":\"hi\"}]"
Bodies ==
    { "{\"model\":\"deepseek-chat\"," \o Msgs \o ",\"stream\":true}",
      "{\"model\":\"deepseek-reasoner\"," \o Msgs \o ",\"stream\":\"true\"}",
      "{\"model\":\"qwq\"," \o Msgs \o ",\"stream\":false}",
      "{\"model\":\"qwq\"," \o Msgs \o ",\"stream\":\"false\"}",
      "{\"model\":\"my-model\"," \o Msgs \o "}",
      "{\"model\":\"qwq\"," \o Msgs \o ",\"stream\":1}",
      "{\"model\":\"qwq\"," \o Msgs \o ",\"stream\":\"yes\"}",
      "{\"model\":\"qwq\",\"messages\":\"hi\"}",
      "{\"model\":\"qwq\",\"messages\":[null]}",
      "{\"model\":",
      "null" }

LongText == "The quick brown fox jumps over the lazy dog."

\* what env.AI.run does: it throws, or returns a byte stream (chunks: what a
\* reader drains from it), or returns a value
AiThrows == [kind |-> "throws", v |-> JUndefined, chunks |-> <<>>]
AiStream(chunks) == [kind |-> "stream", v |-> JUndefined, chunks |-> chunks]
AiValue(v) == [kind |-> "value", v |-> v, chunks |-> <<>>]
AiResults ==
    << AiThrows,
       AiStream(<<"Hel", "lo">>),
       AiValue(JStr("Hello")),
       AiValue(JObj(<<Prop("response", JStr("Hello world"))>>)),
       AiValue(JObj(<<Prop("response", JStr(LongText))>>)),
       AiValue(JObj(<<Prop("response", JStr(""))>>)),
       AiValue(JObj(<<Prop("text", JStr("Hi"))>>)),
       AiValue(JNull) >>

\* the chunks an upstream stream may deliver
UpstreamChunks ==
    { "data: {\"response\":\"Hi\",\"done\":false}",
      "data: {\"response\":\"Hi\",\"done\":true}\n\n",
      "data: {\"response\":\"Yo\",\"done\":1}",
      "data: {\"response\":null}",
      "data: { \"usage\":{\"tokens\":5}, \"response\" : \"a\\\"b\" }",
      "data: [DONE]\n\n",
      "data: {\"usage\":{\"tokens\":5}}",
      "data: {\"usage\":{\"tok",
      "ens\":5}}\n\n",
      "data: {}",
      "data: \n",
      "data: {\"p\":1}",
      "data: null",
      "data: {\"response\":\"Hel",
      "lo\"}\n\n",
      "data: {\"response\":\"A\"}\n\ndata: {\"response\":\"B\"}\n\n",
      "\n" }

RandomIds == {"chatcmpl-k3x9tq", "chatcmpl-0a7fzm"}

(***************************************************************************)
(* createChatCompletion (deepseek-api.ts)                                  *)
(***************************************************************************)
\* MODEL_MAPPING[model] || model, with the table of deepseek-api.ts
DeepseekModel(model) ==
    IF model.t # "str" THEN model
    ELSE IF model.s = "deepseek-chat" THEN JStr("@cf/deepseek-ai/deepseek-v3")
    ELSE IF model.s = "deepseek-reasoner"
         THEN JStr("@cf/deepseek-ai/deepseek-r1-distill-qwen-32b")
    ELSE model

\* stream === true || stream === 'true'
IsStream(flag) ==
    \/ (flag.t = "bool" /\ flag.b)
    \/ (flag.t = "str" /\ flag.s = "true")

\* ...otherParams: the request's properties but model, messages and stream
RECURSIVE RestProps(_)
RestProps(kv) ==
    IF kv = <<>> THEN <<>>
    ELSE (IF Head(kv).k \in {"model", "messages", "stream"} THEN <<>> ELSE <<Head(kv)>>)
         \o RestProps(Tail(kv))

OtherParams(request) == IF request.t = "obj" THEN RestProps(request.kv) ELSE <<>>

RECURSIVE Concat(_)
Concat(chunks) == IF chunks = <<>> THEN "" ELSE Head(chunks) \o Concat(Tail(chunks))

\* the text the non-streaming path extracts from the upstream result
ResultOf(ai) ==
    IF ai.kind = "stream" THEN JStr(Concat(ai.chunks))
    ELSE IF ai.v.t = "str" THEN ai.v
    ELSE IF ai.v.t = "obj" THEN
        IF HasKey(ai.v, "response") THEN OrElse(Field(ai.v, "response"), JStr(""))
        ELSE IF HasKey(ai.v, "text") THEN OrElse(Field(ai.v, "text"), JStr(""))
        ELSE JStr(Stringify(ai.v))
    ELSE IF ai.v.t = "arr" THEN JStr(Stringify(ai.v))
    ELSE JStr("")

\* the ChatCompletionResponse of the non-streaming path
CompletionBody(id, created, model, content) ==
    Stringify(JObj(<<
        Prop("id", JStr(id)),
        Prop("object", JStr("chat.completion")),
        Prop("created", JNum(created)),
        Prop("model", model),
        Prop("choices", JArr(<<JObj(<<
            Prop("index", JNum(0)),
            Prop("message", JObj(<<Prop("role", JStr("assistant")),
                                   Prop("content", content)>>)),
            Prop("finish_reason", JStr("stop"))>>)>>)),
        Prop("usage", JObj(<<Prop("prompt_tokens", JNum(0)),
                             Prop("completion_tokens", JNum(0)),
                             Prop("total_tokens", JNum(0))>>))>>))

ClosedStream ==
    [status |-> "none", id |-> "", created |-> 0, model |-> JUndefined,
     n |-> 0, chunk |-> "", emitted |-> <<>>, out |-> <<>>]

\* the re-framing stream transformStreamToDeepSeekFormat(aiResponse, model)
\* returns: id and created are taken from the clock once, here
OpenStream(t, model) ==
    [ClosedStream EXCEPT !.status = "open",
                         !.id = "chatcmpl-" \o ToString(t),
                         !.created = t \div 1000,
                         !.model = model]

\* the catch of createChatCompletion: a 500 without further headers
CompletionError(message, calls) ==
    [resp |-> Response(500, JsonHeader, "text", InternalErrorBody(message)),
     calls |-> calls, stream |-> ClosedStream]

\* createChatCompletion(request, env) at clock t, env.AI.run behaving as ai:
\* the response, the upstream calls made and the re-framing stream opened
createChatCompletion(request, ai, t) ==
    IF FieldThrows(request) THEN CompletionError("Cannot destructure property", <<>>)
    ELSE
    LET model == Field(request, "model")
        given == Field(request, "stream")
        isStream == IsStream(IF given.t = "undefined" THEN JBool(FALSE) ELSE given)
        calls == <<[model |-> DeepseekModel(model),
                    options |-> JObj(<<Prop("stream", JBool(isStream)),
                                       Prop("messages", Field(request, "messages"))>>
                                     \o OtherParams(request))]>>
    IN  IF ai.kind = "throws" THEN CompletionError("upstream failure", calls)
        ELSE IF isStream THEN
            IF ai.kind # "stream"
            THEN CompletionError("stream.pipeThrough is not a function", calls)
            ELSE [resp |-> Response(200, EventStreamHeaders, "stream", ""),
                  calls |-> calls, stream |-> OpenStream(t, model)]
        ELSE [resp |-> Response(200, JsonHeader, "text",
                                CompletionBody("chatcmpl-" \o ToString(t), t \div 1000,
                                               model, ResultOf(ai))),
              calls |-> calls, stream |-> ClosedStream]

(***************************************************************************)
(* The pass-through router (deepseek-api.ts, default export)               *)
(***************************************************************************)
NoSynth == [status |-> "none", id |-> "", pending |-> <<>>, out |-> <<>>]

ErrorBody(text) == Stringify(JObj(<<Prop("error", JStr(text))>>))

InternalError(message) ==
    Response(500, JsonHeader \cup corsHeaders, "text", InternalErrorBody(message))

\* what a fetch handler does: the response returned, the upstream calls made,
\* the re-framing stream opened, the synthesized stream created
Outcome(response, calls, st, sy) ==
    [resp |-> response, calls |-> calls, stream |-> st, synth |-> sy]

Replied(response) == Outcome(response, <<>>, ClosedStream, NoSynth)

Request(method, path, auth, body, ai) ==
    [method |-> method, path |-> path, auth |-> auth, body |-> body, ai |-> ai]

\* the upstream call of the demo endpoint
DemoCall ==
    <<[model |-> JStr("@cf/deepseek-ai/deepseek-r1-distill-qwen-32b"),
       options |-> JObj(<<Prop("stream", JBool(TRUE)),
                          Prop("max_tokens", JNum(512))>>)]>>

\* what the router returns for what createChatCompletion returned
Completed(c) == Outcome(c.resp, c.calls, c.stream, NoSynth)

\* the chat-completion branch of the pass-through router, parsed being what
\* request.json() gave
deepseekCompletion(parsed, r, t) ==
    IF ~parsed.ok
    THEN Replied(InternalError("Unexpected token in JSON"))
    ELSE Completed(createChatCompletion(parsed.v, r.ai, t))

\* fetch of the pass-through router, for the request r at clock t
fetchDeepseek(r, t) ==
    IF r.method = "OPTIONS" THEN Replied(handleCORS)
    ELSE IF r.path \in ChatPaths THEN
        IF r.method # "POST"
        THEN Replied(Response(405, JsonHeader \cup corsHeaders, "text",
                              ErrorBody("Method not allowed")))
        ELSE deepseekCompletion(JSONParse(r.body), r, t)
    ELSE IF r.path \in {"/", "/demo"} THEN
        IF r.ai.kind = "throws"
        THEN Outcome(InternalError("upstream failure"), DemoCall, ClosedStream, NoSynth)
        ELSE Outcome(Response(200, {<<"content-type", "text/event-stream">>}
                                   \cup corsHeaders, "stream", ""),
                     DemoCall, ClosedStream, NoSynth)
    ELSE Replied(Response(404, JsonHeader \cup corsHeaders, "text",
                          ErrorBody("Not found")))

(***************************************************************************)
(* The authenticated router with synthesized streaming (index.ts)          *)
(***************************************************************************)
\* the number of leading whitespace characters of s
RECURSIVE LeadingWs(_)
LeadingWs(s) ==
    IF Len(s) > 0 /\ IsWs(Ch(s, 1)) THEN 1 + LeadingWs(Sub(s, 2, Len(s))) ELSE 0

HasLineBreak(s) == Includes(s, "\n") \/ Includes(s, "\r")

\* authHeader.match(/^Bearer\s+(.+)$/): whether it matches, and its group
BearerMatch(h) ==
    IF ~StartsWith(h, "Bearer") THEN NoMatch
    ELSE LET rest == Substring(h, 6)
             w == LeadingWs(rest)
             tail == Sub(rest, w + 1, Len(rest))
         IN  IF w = 0 THEN NoMatch
             ELSE IF tail # "" THEN
                 IF HasLineBreak(tail) THEN NoMatch ELSE [matched |-> TRUE, g |-> tail]
             ELSE IF w >= 2 /\ ~HasLineBreak(Ch(rest, w))
                  THEN [matched |-> TRUE, g |-> Ch(rest, w)]
             ELSE NoMatch

\* validateToken that accepts any bearer token
validateTokenAnyBearer(auth) ==
    auth.present /\ auth.value # "" /\ BearerMatch(auth.value).matched

\* validateToken(request, env)
validateToken(auth) ==
    IF ~auth.present \/ auth.value = "" THEN FALSE
    ELSE LET m == BearerMatch(auth.value) IN
         IF ~m.matched THEN FALSE ELSE m.g = API_TOKEN

\* MODEL_MAPPING[body.model] || body.model, with the table of index.ts
IndexModel(model) ==
    IF model.t # "str" THEN model
    ELSE IF model.s = "qwq" THEN JStr("@cf/qwen/qwq-32b")
    ELSE IF model.s = "qwen-coder" THEN JStr("@cf/qwen/qwen2.5-coder-32b-instruct")
    ELSE IF model.s = "deepseek-reasoner"
         THEN JStr("@cf/deepseek-ai/deepseek-r1-distill-qwen-32b")
    ELSE model

\* messages.map(m => `${m.role}: ${m.content}`).join('\n')
RECURSIVE PromptLines(_)
PromptLines(el) ==
    IF el = <<>> THEN ""
    ELSE ToStr(Field(Head(el), "role")) \o ": " \o ToStr(Field(Head(el), "content"))
         \o (IF Len(el) > 1 THEN "\n" ELSE "") \o PromptLines(Tail(el))

\* the slices of text from offset i on
RECURSIVE Slices(_, _, _)
Slices(text, i, size) ==
    IF i >= Len(text) THEN <<>>
    ELSE <<Slice(text, i, i + size)>> \o Slices(text, i + size, size)

\* chunkText returning the text as one slice, whatever its length
chunkTextWhole(text, size) ==
    IF ~Truthy(text) \/ size <= 0 THEN <<"">>
    ELSE IF text.t = "str" THEN <<text.s>>
    ELSE <<>>

\* chunkText(text, size); a truthy value that is no string has no length
chunkText(text, size) ==
    IF ~Truthy(text) \/ size <= 0 THEN <<"">>
    ELSE IF text.t = "str" THEN Slices(text.s, 0, size)
    ELSE <<>>

ChunkSize == 20

\* `data: ${json}\n\n` for a chunk of the synthesized stream
SynthEvent(id, delta, finish) ==
    "data: " \o Stringify(JObj(<<
        Prop("id", JStr(id)),
        Prop("object", JStr("chat.completion.chunk")),
        Prop("choices", JArr(<<JObj(<<
            Prop("delta", delta),
            Prop("index", JNum(0)),
            Prop("finish_reason", finish)>>)>>))>>)) \o "\n\n"

\* the response built from the upstream's full text: one completion, or the
\* synthesized stream whose start() has its chunks pending
completionResponse(body, calls, fullResponse, t, rid) ==
    IF ~Truthy(Field(body, "stream"))
    THEN Outcome(Response(200, JsonHeader, "text",
                          CompletionBody(rid, t \div 1000, Field(body, "model"),
                                         fullResponse)),
                 calls, ClosedStream, NoSynth)
    ELSE Outcome(Response(200, EventStreamHeaders, "stream", ""),
                 calls, ClosedStream,
                 [status |-> "content", id |-> rid,
                  pending |-> IF Truthy(fullResponse)
                              THEN chunkText(fullResponse, ChunkSize) ELSE <<"">>,
                  out |-> <<>>])

\* env.AI.run(cfModel, {prompt, max_tokens}) and aiResult.response
runModel(body, calls, ai, t, rid) ==
    IF ai.kind = "throws"
    THEN Outcome(InternalError("upstream failure"), calls, ClosedStream, NoSynth)
    ELSE IF ai.kind = "value" /\ FieldThrows(ai.v)
    THEN Outcome(InternalError("Cannot read properties of null"), calls,
                 ClosedStream, NoSynth)
    ELSE completionResponse(body, calls,
                            IF ai.kind = "value" THEN Field(ai.v, "response")
                            ELSE JUndefined,
                            t, rid)

\* the handler from the messages check on
withMessages(body, messages, ai, t, rid) ==
    IF messages.t # "arr"
    THEN Replied(Response(400, JsonHeader \cup corsHeaders, "text",
                          ErrorBody("Messages must be an array")))
    ELSE IF \E i \in 1..Len(messages.el) : FieldThrows(messages.el[i])
    THEN Replied(InternalError("Cannot read properties of null"))
    ELSE runModel(body,
                  <<[model |-> IndexModel(Field(body, "model")),
                     options |-> JObj(<<Prop("prompt",
                                             JStr(PromptLines(messages.el)
                                                  \o "\nassistant:")),
                                        Prop("max_tokens", JNum(200))>>)]>>,
                  ai, t, rid)

\* the handler from request.json() on, parsed being what it gave
withBody(parsed, ai, t, rid) ==
    IF ~parsed.ok
    THEN Replied(Response(400, JsonHeader \cup corsHeaders, "text",
                          ErrorBody("Invalid JSON body")))
    ELSE IF FieldThrows(parsed.v)
    THEN Replied(InternalError("Cannot read properties of null"))
    ELSE withMessages(parsed.v, OrElse(Field(parsed.v, "messages"), JArr(<<>>)),
                      ai, t, rid)

\* the chat-completion handler of index.ts, after the token check, for the
\* request r at clock t; rid is what Math.random() gives for the response id
indexCompletion(r, t, rid) == withBody(JSONParse(r.body), r.ai, t, rid)

\* IndexRoute with the method tested before the path: a wrong method on an
\* unknown path is answered 405
RouteMethodFirst(method, path) ==
    IF method = "OPTIONS" THEN "preflight"
    ELSE IF method # "POST" THEN "methodNotAllowed"
    ELSE IF path \in ChatPaths THEN "chat"
    ELSE "notFound"

\* the branch fetch takes for a method and a path
IndexRoute(method, path) ==
    IF method = "OPTIONS" THEN "preflight"
    ELSE IF path \in ChatPaths THEN
        IF method # "POST" THEN "methodNotAllowed" ELSE "chat"
    ELSE "notFound"

\* fetch of index.ts, for the request r at clock t
fetchIndex(r, t, rid) ==
    LET route == IndexRoute(r.method, r.path) IN
    CASE route = "preflight" -> Replied(handleCORS)
      [] route = "methodNotAllowed" ->
            Replied(Response(405, JsonHeader \cup corsHeaders, "text",
                             ErrorBody("Method not allowed")))
      [] route = "chat" ->
            IF ~validateToken(r.auth)
            THEN Replied(Response(401, JsonHeader \cup corsHeaders, "text",
                                  Stringify(JObj(<<Prop("error", JStr("Unauthorized")),
                                                   Prop("message",
                                                        JStr("Invalid API token"))>>))))
            ELSE indexCompletion(r, t, rid)
      [] route = "notFound" ->
            Replied(Response(404, JsonHeader \cup corsHeaders, "text",
                             ErrorBody("Not found")))

(***************************************************************************)
(* The state machine: one request per behaviour                            *)
(***************************************************************************)
Init ==
    /\ now = StartTime
    /\ via = "none"
    /\ req = Request("", "", NoAuth, "", AiThrows)
    /\ resp = NoResponse
    /\ aiCalls = <<>>
    /\ stream = ClosedStream
    /\ synth = NoSynth

\* the handler returns: its outcome becomes the state
Handled(who, r, o) ==
    /\ via' = who
    /\ req' = r
    /\ resp' = o.resp
    /\ aiCalls' = o.calls
    /\ stream' = o.stream
    /\ synth' = o.synth
    /\ UNCHANGED now

\* a request arrives at the authenticated router
FetchIndex ==
    /\ via = "none"
    /\ \E m \in Methods, p \in Paths, a \in AuthHeaders, b \in Bodies,
          i \in 1..Len(AiResults), rid \in RandomIds :
        \E o \in {fetchIndex(Request(m, p, a, b, AiResults[i]), now, rid)} :
            Handled("index", Request(m, p, a, b, AiResults[i]), o)

\* a request arrives at the pass-through router
FetchDeepseek ==
    /\ via = "none"
    /\ \E m \in Methods, p \in Paths, b \in Bodies, i \in 1..Len(AiResults) :
        \E o \in {fetchDeepseek(Request(m, p, NoAuth, b, AiResults[i]), now)} :
            Handled("deepseek", Request(m, p, NoAuth, b, AiResults[i]), o)

\* the clock advances while the re-framed stream is open
Tick ==
    /\ stream.status = "open"
    /\ \E t \in Instants : t > now /\ now' = t
    /\ UNCHANGED <<via, req, resp, aiCalls, stream, synth>>

\* Transform with a carry-over buffer: a chunk that is no data chunk is
\* joined to the chunk delivered before it
TransformBuffered ==
    /\ stream.status = "open"
    /\ stream.n < MaxChunks
    /\ \E c \in UpstreamChunks :
        \E events \in {transform(IF StartsWith(c, "data: ") THEN c
                                  ELSE stream.chunk \o c,
                                  stream.id, stream.created, stream.model)} :
        stream' = [stream EXCEPT !.n = @ + 1, !.chunk = c, !.emitted = events,
                                 !.out = @ \o events]
    /\ UNCHANGED <<now, via, req, resp, aiCalls, synth>>

\* the upstream delivers a chunk: the transformer's transform callback runs
Transform ==
    /\ stream.status = "open"
    /\ stream.n < MaxChunks
    /\ \E c \in UpstreamChunks :
        \E events \in {transform(c, stream.id, stream.created, stream.model)} :
        stream' = [stream EXCEPT !.n = @ + 1, !.chunk = c, !.emitted = events,
                                 !.out = @ \o events]
    /\ UNCHANGED <<now, via, req, resp, aiCalls, synth>>

\* the upstream closes: pipeThrough closes the re-framed stream
UpstreamClose ==
    /\ stream.status = "open"
    /\ stream' = [stream EXCEPT !.status = "closed"]
    /\ UNCHANGED <<now, via, req, resp, aiCalls, synth>>

\* start() of the synthesized stream: one content chunk
SynthContent ==
    /\ synth.status = "content"
    /\ synth.pending # <<>>
    /\ synth' = [synth EXCEPT
            !.pending = Tail(@),
            !.out = Append(@, SynthEvent(synth.id,
                                         JObj(<<Prop("content", JStr(Head(synth.pending)))>>),
                                         JNull))]
    /\ UNCHANGED <<now, via, req, resp, aiCalls, stream>>

\* start() of the synthesized stream: the terminal chunk
SynthStop ==
    /\ synth.status = "content"
    /\ synth.pending = <<>>
    /\ synth' = [synth EXCEPT
            !.status = "stop",
            !.out = Append(@, SynthEvent(synth.id, JObj(<<>>), JStr("stop")))]
    /\ UNCHANGED <<now, via, req, resp, aiCalls, stream>>

\* start() of the synthesized stream: the sentinel, then controller.close()
SynthDone ==
    /\ synth.status = "stop"
    /\ synth' = [synth EXCEPT !.status = "closed", !.out = Append(@, DoneEvent)]
    /\ UNCHANGED <<now, via, req, resp, aiCalls, stream>>

Next ==
    \/ FetchIndex
    \/ FetchDeepseek
    \/ Tick
    \/ Transform
    \/ UpstreamClose
    \/ SynthContent
    \/ SynthStop
    \/ SynthDone

Spec == Init /\ [][Next]_vars

(***************************************************************************)
(* Reading the emitted events back, as a client does                       *)
(***************************************************************************)
\* the JSON of an event `data: <json>\n\n`
EventJson(e) ==
    IF StartsWith(e, "data: ") /\ EndsWith(e, "\n\n")
    THEN JSONParse(Sub(e, 7, Len(e) - 2))
    ELSE Fail

IsStrOf(v, text) == v.t = "str" /\ v.s = text

\* what a client reads in the event e: the sentinel, a CompletionChunk with
\* its id, created, delta.content and finish_reason, or something else
NotAChunk(kind) ==
    [kind |-> kind, id |-> "", created |-> 0, content |-> JUndefined,
     finish |-> JUndefined]

ReadEvent(e) ==
    IF e = "data: [DONE]\n\n" THEN NotAChunk("done")
    ELSE LET r == EventJson(e)
             ch == Field(r.v, "choices")
         IN  IF /\ r.ok
                /\ r.v.t = "obj"
                /\ IsStrOf(Field(r.v, "object"), "chat.completion.chunk")
                /\ Field(r.v, "id").t = "str"
                /\ Field(r.v, "created").t = "num"
                /\ ch.t = "arr"
                /\ Len(ch.el) = 1
                /\ ch.el[1].t = "obj"
                /\ Field(ch.el[1], "delta").t = "obj"
                /\ \/ Field(ch.el[1], "finish_reason").t = "null"
                   \/ IsStrOf(Field(ch.el[1], "finish_reason"), "stop")
             THEN [kind |-> "chunk",
                   id |-> Field(r.v, "id").s,
                   created |-> Field(r.v, "created").n,
                   content |-> Field(Field(ch.el[1], "delta"), "content"),
                   finish |-> Field(ch.el[1], "finish_reason")]
             ELSE NotAChunk("other")

\* the events of a sequence, read
RECURSIVE ReadAll(_)
ReadAll(events) ==
    IF events = <<>> THEN <<>>
    ELSE <<ReadEvent(Head(events))>> \o ReadAll(Tail(events))

\* two JSON values are the same value
SameValue(a, b) ==
    /\ a.t = b.t
    /\ a.t = "undefined" \/ Stringify(a) = Stringify(b)

\* the payload of the chunk last delivered to the re-framer
LastIsData == stream.n > 0 /\ StartsWith(stream.chunk, "data: ")
LastPayload == Trim(Substring(stream.chunk, 6))

\* the Authorization header is `Bearer <token>` with the configured token
IsBearerOf(auth, token) ==
    /\ auth.present
    /\ \E k \in 7..Len(auth.value) :
        /\ Sub(auth.value, 1, 6) = "Bearer"
        /\ \A j \in 7..k : IsWs(Ch(auth.value, j))
        /\ Sub(auth.value, k + 1, Len(auth.value)) = token

ChatPost == req.method = "POST" /\ req.path \in ChatPaths

IsEventStream ==
    resp.kind = "stream" /\ <<"content-type", "text/event-stream">> \in resp.headers

\* the body is {error: {message: string, type: string, param: null, code: string}}
ErrorShape(body) ==
    LET r == JSONParse(body) IN
    /\ r.ok
    /\ Field(r.v, "error").t = "obj"
    /\ Field(Field(r.v, "error"), "message").t = "str"
    /\ Field(Field(r.v, "error"), "type").t = "str"
    /\ Field(Field(r.v, "error"), "param").t = "null"
    /\ Field(Field(r.v, "error"), "code").t = "str"

\* the CompletionChunks among the read events evs carry the id and created
\* of the first of them
LikeFirstChunk(evs) ==
    \A i, j \in 1..Len(evs) :
        evs[i].kind = "chunk" /\ evs[j].kind = "chunk" /\ i <= j =>
            evs[j].id = evs[i].id /\ evs[j].created = evs[i].created

\* the chunk last delivered is `data: <payload>`, the payload parsing as JSON
\* with a response field
ResponsePayload ==
    /\ LastIsData
    /\ LET r == JSONParse(LastPayload) IN r.ok /\ HasKey(r.v, "response")

(***************************************************************************)
(* C1: when the upstream of a re-framed stream has closed, the emitted     *)
(* events end with `data: [DONE]\n\n` and no other [DONE] precedes it.     *)
(* The re-framer forwards a [DONE] only when the upstream sends one.       *)
(***************************************************************************)
C1_EndsWithOneDone ==
    stream.status = "closed" =>
        /\ stream.out # <<>>
        /\ stream.out[Len(stream.out)] = "data: [DONE]\n\n"
        /\ \A i \in 1..(Len(stream.out) - 1) : stream.out[i] # "data: [DONE]\n\n"

(***************************************************************************)
(* C2 as claimed: every emitted event other than [DONE] parses as a        *)
(* CompletionChunk with the id and created of the stream's first chunk.    *)
(***************************************************************************)
C2_EveryEventIsChunk ==
    LET evs == ReadAll(stream.out) IN
    /\ \A i \in 1..Len(evs) : evs[i].kind \in {"done", "chunk"}
    /\ LikeFirstChunk(evs)

(***************************************************************************)
(* C2 amended: every emitted event is the [DONE] sentinel, or the text of  *)
(* an upstream chunk that does not begin with `data: ` followed by a       *)
(* newline, or a CompletionChunk carrying the id and created fixed when    *)
(* the stream was created, which are those of the stream's first chunk.    *)
(***************************************************************************)
C2_ChunkOrPassThrough ==
    LET evs == ReadAll(stream.out)
        new == Len(stream.out) - Len(stream.emitted)
    IN  /\ \A i \in 1..Len(stream.emitted) :
            /\ stream.out[new + i] = stream.emitted[i]
            /\ \/ evs[new + i].kind = "done"
               \/ /\ ~StartsWith(stream.chunk, "data: ")
                  /\ stream.emitted[i] = stream.chunk \o "\n"
               \/ /\ evs[new + i].kind = "chunk"
                  /\ evs[new + i].id = stream.id
                  /\ evs[new + i].created = stream.created
        /\ LikeFirstChunk(evs)

\* a chunk, the clock having advanced since the stream was created, and a
\* passed-through chunk
C2_Witness ==
    /\ Len(stream.out) = 2
    /\ now > StartTime
    /\ ~StartsWith(stream.out[1], "data: ")
    /\ ReadEvent(stream.out[2]).kind = "chunk"
    /\ stream.emitted = <<stream.out[2]>>

(***************************************************************************)
(* C3: in the authenticated router env.AI.run is invoked only for a POST   *)
(* to a chat-completion path with the header `Bearer <API_TOKEN>` and a    *)
(* body that parsed as JSON; any other Authorization header is answered    *)
(* 401 and a body that is not JSON 400, both without an upstream call.     *)
(***************************************************************************)
C3_UpstreamOnlyWhenAuthorized ==
    via = "index" =>
        LET bearer == IsBearerOf(req.auth, API_TOKEN)
            json == JSONParse(req.body).ok
        IN  /\ aiCalls # <<>> => ChatPost /\ bearer /\ json
            /\ ChatPost /\ ~bearer => resp.status = 401 /\ aiCalls = <<>>
            /\ ChatPost /\ bearer /\ ~json => resp.status = 400 /\ aiCalls = <<>>

\* a well-formed bearer header with the wrong token was refused
C3_Witness ==
    /\ via = "index"
    /\ ChatPost
    /\ req.auth = Auth("Bearer wrong")
    /\ resp.status = 401
    /\ aiCalls = <<>>

(***************************************************************************)
(* C4: a successful chat-completion request is answered with an event      *)
(* stream if and only if its stream field is true or "true"; any other     *)
(* value gets a single application/json completion.                        *)
(* index.ts tests `!body.stream`, so "false", 1 and "yes" stream there.    *)
(***************************************************************************)
C4_StreamIffTrue ==
    via # "none" /\ ChatPost /\ resp.status = 200 =>
        LET flag == Field(JSONParse(req.body).v, "stream")
            wanted == \/ (flag.t = "bool" /\ flag.b)
                      \/ IsStrOf(flag, "true")
        IN  /\ IsEventStream <=> wanted
            /\ ~wanted =>
                /\ resp.kind = "text"
                /\ <<"content-type", "application/json">> \in resp.headers
                /\ IsStrOf(Field(JSONParse(resp.body).v, "object"), "chat.completion")

(***************************************************************************)
(* C5: every response of the router carries the cross-origin headers.      *)
(* The successful responses of index.ts are built without them.            *)
(***************************************************************************)
C5_EveryResponseHasCors ==
    via = "index" => corsHeaders \subseteq resp.headers

(***************************************************************************)
(* C6: every error response has the body {error: {message, type, param:    *)
(* null, code}} and the status of its cause: 404 unknown route, 405 wrong  *)
(* method, 401 bad credential, 400 bad JSON or messages that are no array, *)
(* 500 otherwise.  Only the 500 responses have that body.                  *)
(***************************************************************************)
C6_ErrorBodies ==
    via = "index" /\ resp.status >= 400 =>
        /\ ErrorShape(resp.body)
        /\ resp.status \in {400, 401, 404, 405, 500}
        /\ req.path \notin ChatPaths <=> resp.status = 404
        /\ req.path \in ChatPaths /\ req.method # "POST" <=> resp.status = 405
        /\ ChatPost /\ ~IsBearerOf(req.auth, API_TOKEN) <=> resp.status = 401
        /\ resp.status = 400 =>
            \/ ~JSONParse(req.body).ok
            \/ Field(JSONParse(req.body).v, "messages").t # "arr"

C8_ResponseChunk ==
    ResponsePayload =>
        LET payload == JSONParse(LastPayload).v
            response == Field(payload, "response")
            ev == ReadEvent(stream.emitted[1])
        IN  /\ Len(stream.emitted) = 1
            /\ ev.kind = "chunk"
            /\ SameValue(ev.content, IF Truthy(response) THEN response ELSE JStr(""))
            /\ IF Truthy(Field(payload, "done"))
               THEN IsStrOf(ev.finish, "stop")
               ELSE ev.finish.t = "null"

\* a falsy response was framed with empty content
C8_Witness ==
    /\ ResponsePayload
    /\ ~Truthy(Field(JSONParse(LastPayload).v, "response"))
    /\ Len(stream.emitted) = 1
    /\ IsStrOf(ReadEvent(stream.emitted[1]).content, "")

(***************************************************************************)
(* C9: the re-framer emits nothing for a chunk `data: <payload>` whose     *)
(* payload is empty, is {}, has a "usage" key and no "response" key, or    *)
(* parses as JSON without a response field.                                *)
(* The payload null parses, has no response field, and gets a chunk.       *)
(***************************************************************************)
C9_NothingEmitted ==
    LastIsData /\ LastPayload # "[DONE]" =>
        LET r == JSONParse(LastPayload) IN
        (\/ LastPayload = ""
         \/ LastPayload = "{}"
         \/ r.ok /\ HasKey(r.v, "usage") /\ ~HasKey(r.v, "response")
         \/ r.ok /\ ~HasKey(r.v, "response"))
        => stream.emitted = <<>>

(***************************************************************************)
(* C10: for a chunk whose payload after `data: ` is, trimmed, [DONE], the  *)
(* re-framer emits exactly the event `data: [DONE]\n\n`, not a             *)
(* CompletionChunk.                                                        *)
(***************************************************************************)
C10_DonePassedThrough ==
    LastIsData /\ LastPayload = "[DONE]" =>
        /\ Len(stream.emitted) = 1
        /\ stream.emitted[1] = "data: [DONE]\n\n"
        /\ ReadEvent(stream.emitted[1]).kind # "chunk"

\* the upstream's sentinel, framed with trailing newlines, was forwarded
C10_Witness ==
    /\ LastIsData
    /\ stream.chunk = "data: [DONE]\n\n"
    /\ stream.emitted = <<"data: [DONE]\n\n">>
    /\ stream.out[Len(stream.out)] = "data: [DONE]\n\n"

(***************************************************************************)
(* Malformed payloads, as a client of the upstream sees them               *)
(***************************************************************************)
\* the payload of the chunk text `data: <payload>`
PayloadOf(text) == Trim(Substring(text, 6))

\* text is `data: <payload>`, the payload not the sentinel and not JSON
FailsParse(text) ==
    /\ StartsWith(text, "data: ")
    /\ PayloadOf(text) # "[DONE]"
    /\ ~JSONParse(PayloadOf(text)).ok

\* the payload p looks like a usage-only record
UsageOnly(p) == Includes(p, "\"usage\"") /\ ~Includes(p, "\"response\"")

\* the positions of p where `"response":"` starts and a closing quote follows
PatternStarts(p) ==
    {a \in 1..Len(p) :
        /\ Sub(p, a, a + Len(ResponseKey) - 1) = ResponseKey
        /\ \E q \in (a + Len(ResponseKey))..Len(p) : Ch(p, q) = "\""}

\* the text between the leftmost `"response":"` of p and the next quote,
\* "" when p has no such pattern
PatternText(p) ==
    IF PatternStarts(p) = {} THEN ""
    ELSE LET a == CHOOSE x \in PatternStarts(p) : \A y \in PatternStarts(p) : x <= y
             from == a + Len(ResponseKey)
             q == CHOOSE x \in from..Len(p) :
                     /\ Ch(p, x) = "\""
                     /\ \A y \in from..(x - 1) : Ch(p, y) # "\""
         IN  Sub(p, from, q - 1)

\* the events evs are one CompletionChunk with finish_reason null and the
\* content text
OneOpenChunk(evs, text) ==
    /\ Len(evs) = 1
    /\ ReadEvent(evs[1]).kind = "chunk"
    /\ IsStrOf(ReadEvent(evs[1]).content, text)
    /\ ReadEvent(evs[1]).finish.t = "null"

(***************************************************************************)
(* C11 as claimed: every `data: ` payload that fails JSON parsing and is   *)
(* not empty gets one CompletionChunk with finish_reason null and the      *)
(* pattern's text, or "", as content.                                      *)
(***************************************************************************)
C11_EveryMalformedFramed ==
    stream.n > 0 /\ FailsParse(stream.chunk) /\ PayloadOf(stream.chunk) # "" =>
        OneOpenChunk(stream.emitted, PatternText(PayloadOf(stream.chunk)))

(***************************************************************************)
(* C11 amended: a `data: ` payload that fails JSON parsing, is not empty   *)
(* and does not look like a usage-only record (a "usage" key and no        *)
(* "response" key: that one is skipped before parsing) gets one            *)
(* CompletionChunk with finish_reason null whose content is the text of    *)
(* the leftmost "response":"..." pattern, or "" when there is none; the    *)
(* stream stays open after it, and the chunk delivered next has its own    *)
(* events appended to the output.                                          *)
(***************************************************************************)
C11_MalformedFramed ==
    [][\A old \in {stream}, new \in {stream'} :
        new.n = old.n + 1 =>
            /\ FailsParse(new.chunk) /\ PayloadOf(new.chunk) # ""
                /\ ~UsageOnly(PayloadOf(new.chunk))
               => /\ OneOpenChunk(new.emitted, PatternText(PayloadOf(new.chunk)))
                  /\ new.status = "open"
            /\ old.n > 0 /\ FailsParse(old.chunk)
               => /\ old.status = "open"
                  /\ new.status = "open"
                  /\ new.out = old.out \o new.emitted
      ]_vars

\* the text of a pattern was extracted from a chunk holding two events, and
\* the chunk delivered after it was framed
C11_Witness ==
    /\ stream.n = 2
    /\ Len(stream.out) = 2
    /\ IsStrOf(ReadEvent(stream.out[1]).content, "A")
    /\ stream.chunk = "data: {\"response\":\"Hi\",\"done\":false}"
    /\ IsStrOf(ReadEvent(stream.out[2]).content, "Hi")

(***************************************************************************)
(* Reading the synthesized stream back                                     *)
(***************************************************************************)
\* what a client reads in the event e of the synthesized stream: the
\* sentinel, a chunk with its id, delta.content and finish_reason, or
\* something else
ReadSynth(e) ==
    IF e = "data: [DONE]\n\n" THEN NotAChunk("done")
    ELSE LET r == EventJson(e)
             ch == Field(r.v, "choices")
         IN  IF /\ r.ok
                /\ IsStrOf(Field(r.v, "object"), "chat.completion.chunk")
                /\ Field(r.v, "id").t = "str"
                /\ ch.t = "arr"
                /\ Len(ch.el) = 1
                /\ Field(ch.el[1], "delta").t = "obj"
             THEN [kind |-> "chunk",
                   id |-> Field(r.v, "id").s,
                   created |-> 0,
                   content |-> Field(Field(ch.el[1], "delta"), "content"),
                   finish |-> Field(ch.el[1], "finish_reason")]
             ELSE NotAChunk("other")

RECURSIVE ReadAllSynth(_)
ReadAllSynth(events) ==
    IF events = <<>> THEN <<>>
    ELSE <<ReadSynth(Head(events))>> \o ReadAllSynth(Tail(events))

\* the full text the upstream call of the request returned, "" when its
\* result has no response text
FullText ==
    IF req.ai.kind = "value" /\ Field(req.ai.v, "response").t = "str"
    THEN Field(req.ai.v, "response").s
    ELSE ""

\* the event is a content chunk: a string of at most ChunkSize characters
\* as delta.content, finish_reason null
IsContentChunk(ev) ==
    /\ ev.kind = "chunk"
    /\ ev.content.t = "str"
    /\ Len(ev.content.s) <= 20
    /\ ev.finish.t = "null"

\* the event is the terminal chunk: no content, finish_reason "stop"
IsStopChunk(ev) ==
    /\ ev.kind = "chunk"
    /\ ev.content.t = "undefined"
    /\ IsStrOf(ev.finish, "stop")

\* the contents of the events evs[1..k], concatenated
RECURSIVE ContentUpTo(_, _)
ContentUpTo(evs, k) ==
    IF k = 0 THEN "" ELSE ContentUpTo(evs, k - 1) \o evs[k].content.s

(***************************************************************************)
(* C12: the synthesized stream of index.ts emits, in this order, content   *)
(* chunks of at most 20 characters with finish_reason null whose contents  *)
(* concatenated are the upstream's full text (one empty-content chunk for  *)
(* an empty or missing text), then one terminal chunk without content and  *)
(* with finish_reason "stop", then one `data: [DONE]\n\n`, and then       *)
(* closes; all its chunks carry the same id.                               *)
(***************************************************************************)
C12_SynthSequence ==
    synth.status # "none" =>
        LET evs == ReadAllSynth(synth.out)
            n == Len(evs)
            \* the number of content chunks emitted so far
            k == CASE synth.status = "content" -> n
                   [] synth.status = "stop" -> n - 1
                   [] synth.status = "closed" -> n - 2
        IN  /\ k >= 0
            /\ \A i \in 1..k : IsContentChunk(evs[i])
            /\ synth.status \in {"stop", "closed"} =>
                /\ k >= 1
                /\ ContentUpTo(evs, k) = FullText
                /\ FullText = "" => k = 1
                /\ IsStopChunk(evs[k + 1])
            /\ synth.status = "closed" => evs[n].kind = "done"
            /\ \A i, j \in 1..n :
                    evs[i].kind = "chunk" /\ evs[j].kind = "chunk" => evs[i].id = evs[j].id

\* a text of three slices was streamed to the end
C12_Witness ==
    /\ synth.status = "closed"
    /\ FullText = LongText
    /\ Len(synth.out) = 5
    /\ ReadSynth(synth.out[3]).content = JStr("dog.")
    /\ synth.out[5] = "data: [DONE]\n\n"

(***************************************************************************)
(* Events split across two delivered chunks                                *)
(***************************************************************************)
\* first and second are the two fragments of one event `data: <json>`: the
\* first starts the event and is not a whole event itself, and together
\* they are one
SplitEvent(first, second) ==
    /\ StartsWith(first, "data: ")
    /\ second # ""
    /\ PayloadOf(first) # "[DONE]"
    /\ ~JSONParse(PayloadOf(first)).ok
    /\ JSONParse(PayloadOf(first \o second)).ok

\* evs is what the parse-failure path makes of the fragment text: nothing,
\* or one CompletionChunk with the fragment's own pattern text
DroppedOrFallback(text, evs) ==
    \/ evs = <<>>
    \/ /\ FailsParse(text)
       /\ OneOpenChunk(evs, PatternText(PayloadOf(text)))

\* evs is the fragment text passed through: it is no data chunk
PassedThrough(text, evs) ==
    /\ ~StartsWith(text, "data: ")
    /\ evs = <<text \o "\n">>

\* no event of evs is what the whole event would have been framed as
NotReassembled(whole, evs) ==
    \A i \in 1..Len(evs) :
        ReadEvent(evs[i]).kind = "chunk" =>
            ~SameValue(ReadEvent(evs[i]).content,
                       Field(JSONParse(PayloadOf(whole)).v, "response"))

C14_StatelessInOrder ==
    [][\A old \in {stream}, new \in {stream'} :
        /\ new.n = old.n + 1 =>
            /\ Len(new.emitted) <= 1
            /\ new.emitted = transform(new.chunk, old.id, old.created, old.model)
            /\ new.out = old.out \o new.emitted
            /\ new.id = old.id /\ new.created = old.created /\ new.model = old.model
        /\ old.n > 0 /\ new.n = old.n => new.out = old.out
      ]_vars

\* two chunks were framed one after the other, the clock having advanced
C14_Witness ==
    /\ stream.n = 2
    /\ now > StartTime
    /\ Len(stream.out) = 2
    /\ IsStrOf(ReadEvent(stream.out[1]).content, "Hi")
    /\ stream.chunk = "data: {\"response\":\"Yo\",\"done\":1}"
    /\ stream.emitted = <<stream.out[2]>>
    /\ IsStrOf(ReadEvent(stream.out[2]).content, "Yo")

====
